---- MODULE Spec2Model ----
(***************************************************************************)
(* The continuous voice-interaction loop of main.py: capture chunks from   *)
(* the input stream, segment each chunk, accumulate while speech goes on,  *)
(* then transcribe, synthesize and play back, forever, until a turn        *)
(* captures nothing.                                                       *)
(*                                                                         *)
(* Times are counted in half seconds (CHUNK_SIZE = 1 s is 2, and           *)
(* SILENCE_DURATION = 0.5 s is 1), float samples in units of 1/FloatOne    *)
(* (the float 1.0 is FloatOne units); a captured sample is a record that   *)
(* is either such a float or NaN (0/0, the result of normalizing an        *)
(* all-zero chunk).                                                        *)
(***************************************************************************)
EXTENDS Integers, Sequences, FiniteSets, TLC

\* ---------------------------------------------------------------- bounds
MaxTurns == 2
MaxChunks == 3
SamplesPerChunk == 2
FloatOne == 2

\* ------------------------------------------------------ program constants
CHUNK_SIZE == 2
SILENCE_DURATION == 1
PCM_SCALE == 32767
INT16_BITS == 16

INT16_MAX == 2 ^ (INT16_BITS - 1) - 1
INT16_MIN == 0 - 2 ^ (INT16_BITS - 1)

\* --------------------------------------------------------- input domains
SampleVals == {0, 1}
RawChunks == [1..SamplesPerChunk -> SampleVals]

Times == 0..CHUNK_SIZE
Segments == {s \in [start : Times, end : Times] : s.start < s.end}
Diarizations ==
    {<<>>} \cup {<<s>> : s \in Segments}
           \cup UNION {{<<s, t>> : t \in {u \in Segments : s.end <= u.start}} : s \in Segments}

Texts == {"", "xin chao"}

FloatVals == {0 - FloatOne, 0 - 1, 1, FloatOne, FloatOne + 1}
Audios == {<<v>> : v \in FloatVals}

\* ------------------------------------------------------- pure operators
Abs(x) == IF x < 0 THEN 0 - x ELSE x

TruncDiv(a, b) == IF a < 0 THEN 0 - ((0 - a) \div b) ELSE a \div b

RECURSIVE MaxAbs(_)
MaxAbs(s) ==
    IF Len(s) = 0 THEN 0
    ELSE LET m == MaxAbs(Tail(s))
         IN  IF Abs(Head(s)) > m THEN Abs(Head(s)) ELSE m

NaN == [nan |-> TRUE, val |-> 0]
Float(v) == [nan |-> FALSE, val |-> v]

Normalize(raw) ==
    LET m == MaxAbs(raw)
    IN  [i \in 1..Len(raw) |->
            IF m = 0 THEN NaN ELSE Float(TruncDiv(raw[i] * FloatOne, m))]

RECURSIVE CatReversed(_)
CatReversed(fr) == IF Len(fr) = 0 THEN <<>> ELSE CatReversed(Tail(fr)) \o Head(fr)
RECURSIVE Cat(_)
Cat(fr) == IF Len(fr) = 0 THEN <<>> ELSE Head(fr) \o Cat(Tail(fr))

SegArgAccumulated(fr, d) == Cat(fr) \o d
SegArg(fr, d) == d

AccumulateReplace(fr, d) == <<d>>
Accumulate(fr, d) == Append(fr, d)

ContinuationTestFirstSegment(segs) ==
    Len(segs) > 0 /\ CHUNK_SIZE - segs[1].end < SILENCE_DURATION
ContinuationTest(segs) ==
    Len(segs) > 0 /\ CHUNK_SIZE - segs[Len(segs)].end < SILENCE_DURATION

StreamExitLeak(held) == held
StreamExit(held) == FALSE

KeepFrames(fr) == fr
NewFrames(fr) == <<>>

NoVoiceNever(fr) == FALSE
NoVoice(fr) == Len(fr) = 0


Wrap16(t) ==
    LET m == t % (2 ^ INT16_BITS)
    IN  IF m > INT16_MAX THEN m - 2 ^ INT16_BITS ELSE m

Scaled(v) == TruncDiv(v * PCM_SCALE, FloatOne)

AsInt16(t) ==
    IF INT16_MIN <= t /\ t <= INT16_MAX THEN {t} ELSE {Wrap16(t), INT16_MIN}

ScaledOutcomes(audio) ==
    LET cand == UNION {AsInt16(Scaled(audio[i])) : i \in 1..Len(audio)}
    IN  {w \in [1..Len(audio) -> cand] :
            \A i \in 1..Len(audio) : w[i] \in AsInt16(Scaled(audio[i]))}

WaitDoneNoBlock(n) == TRUE
WaitDoneReturns(n) == n = 0

OnFailureAbortTurn(stage) == "idle"
OnFailure(stage) == "error"


\* ------------------------------------------- command parser: operators
\* command_parser.py. A command tree is a function from its keys to the
\* sequence of destination commands of each key.
CommandTrees ==
    { [k \in {"start_program", "run_program", "execute", "exit_program"} |->
          CASE k = "start_program" -> <<"run_program", "exit_program">>
            [] k = "run_program" -> <<"execute", "exit_program">>
            [] k = "execute" -> <<"exit_program">>
            [] OTHER -> <<>>],
      [k \in {"start_program"} |-> <<"run_program">>],
      [k \in {"exit_program"} |-> <<>>] }

Vocabulary == {"start_program", "run_program", "execute", "exit_program", "format_disk"}

MaxCommands == 3

CommandLists == UNION {[1..n -> Vocabulary] : n \in 0..MaxCommands}

ParserInputs ==
    { [type |-> "str", val |-> ""],
      [type |-> "str", val |-> "run, execute, exit"],
      [type |-> "NoneType", val |-> "None"],
      [type |-> "int", val |-> "0"],
      [type |-> "int", val |-> "5"] }

ChainExceptions ==
    {"OutputParserException", "APIError", "APIConnectionError", "RateLimitError", "Exception"}

NoOutcome == [kind |-> "not invoked", commands |-> <<>>, exc |-> ""]

ChainOutcomes ==
    { [kind |-> "commands", commands |-> c, exc |-> ""] : c \in CommandLists }
    \cup { [kind |-> "commands is None", commands |-> <<>>, exc |-> ""],
           [kind |-> "response is None", commands |-> <<>>, exc |-> ""] }
    \cup { [kind |-> "raise", commands |-> <<>>, exc |-> e] : e \in ChainExceptions }

AllCommands(tree) ==
    DOMAIN tree \cup UNION {{tree[k][i] : i \in 1..Len(tree[k])} : k \in DOMAIN tree}

Truthy(inp) ==
    CASE inp.type = "str" -> inp.val # ""
      [] inp.type = "int" -> inp.val # "0"
      [] OTHER -> FALSE

InputRejected(inp) == ~Truthy(inp) \/ inp.type # "str"

FilterValidNoCheck(cmds, all) == cmds
RECURSIVE FilterValid(_, _)
FilterValid(cmds, all) ==
    IF Len(cmds) = 0 THEN <<>>
    ELSE IF Head(cmds) \in all
         THEN <<Head(cmds)>> \o FilterValid(Tail(cmds), all)
         ELSE FilterValid(Tail(cmds), all)

ExceptHandler(exc, tok) ==
    IF exc \in {"APIError", "APIConnectionError", "RateLimitError"} THEN tok ELSE <<>>

Tokenize(all, inp, outcome) ==
    IF InputRejected(inp)
    THEN [invoked |-> FALSE, tok_lst |-> <<>>]
    ELSE [invoked |-> TRUE,
          tok_lst |->
            CASE outcome.kind = "raise" -> ExceptHandler(outcome.exc, <<>>)
              [] outcome.kind = "commands" -> FilterValid(outcome.commands, all)
              [] OTHER -> <<>>]


\* ---------------------------------------------- ReAct agent: operators
\* chatbot/react_agent.py. A message is a record of its role and content.
MaxAgentCalls == 3

Human(c) == [role |-> "human", content |-> c]
AI(c) == [role |-> "ai", content |-> c]
ToolMsg(c) == [role |-> "tool", content |-> c]

UserInputs == {"hi", "What is the current price of Bitcoin?"}
Replies == {"hello", "about 60000 USD"}

\* What one run of the agent executor adds to the messages it was given.
AgentRuns ==
    {<<AI(r)>> : r \in Replies}
    \cup {<<AI(""), ToolMsg("search result"), AI(r)>> : r \in Replies}

Last(seq) == seq[Len(seq)]

ProcessUserInput(history, verbose, user_input, run) ==
    LET appended == Append(history, Human(user_input))
        final == appended \o run
    IN  IF verbose
        THEN [message_history |-> appended, result |-> Last(final).content]
        ELSE [message_history |-> final, result |-> Last(final).content]

\* ----------------------------------------------------------------- state
VARIABLES pc, turn, frames, data, segments, waveform, input_text, output,
          inputHeld, inFlight, chunksRead, segInput,
          sttCalls, ttsCalls, playCalls, catCalls, failedAt

vars == <<pc, turn, frames, data, segments, waveform, input_text, output,
          inputHeld, inFlight, chunksRead, segInput,
          sttCalls, ttsCalls, playCalls, catCalls, failedAt>>

\* CommandParser: the object's fields and the last tokenize_command call.
VARIABLES parser_pc, command_tree, all_commands, nl_command, chain_outcome,
          chain_invoked, tok_lst

parserVars == <<parser_pc, command_tree, all_commands, nl_command, chain_outcome,
                chain_invoked, tok_lst>>

\* ReActAgent: a verbose and a non-verbose agent given the same calls.
VARIABLES history_verbose, history_plain, result_verbose, result_plain,
          agent_calls, agent_last

agentVars == <<history_verbose, history_plain, result_verbose, result_plain,
               agent_calls, agent_last>>

allVars == <<vars, parserVars, agentVars>>

prog == <<frames, data, segments, waveform, input_text, output>>
calls == <<sttCalls, ttsCalls, playCalls, catCalls>>

Init ==
    /\ pc = "warmup"
    /\ turn = 0
    /\ frames = <<>>
    /\ data = <<>>
    /\ segments = <<>>
    /\ waveform = <<>>
    /\ input_text = ""
    /\ output = <<>>
    /\ inputHeld = FALSE
    /\ inFlight = 0
    /\ chunksRead = 0
    /\ segInput = <<>>
    /\ sttCalls = 0
    /\ ttsCalls = 0
    /\ playCalls = 0
    /\ catCalls = 0
    /\ failedAt = "none"
    /\ parser_pc = "new"
    /\ command_tree = <<>>
    /\ all_commands = {}
    /\ nl_command = [type |-> "NoneType", val |-> "None"]
    /\ chain_outcome = NoOutcome
    /\ chain_invoked = FALSE
    /\ tok_lst = <<>>
    /\ history_verbose = <<>>
    /\ history_plain = <<>>
    /\ result_verbose = ""
    /\ result_plain = ""
    /\ agent_calls = 0
    /\ agent_last = "init"

\* --------------------------------------------------------------- actions
WarmUp ==
    /\ pc = "warmup"
    /\ pc' = "idle"
    /\ UNCHANGED <<turn, prog, inputHeld, inFlight, chunksRead, segInput, calls, failedAt>>
    /\ UNCHANGED <<parserVars, agentVars>>

WarmUpFail ==
    /\ pc = "warmup"
    /\ pc' = OnFailure("warmup")
    /\ failedAt' = "warmup"
    /\ UNCHANGED <<turn, prog, inputHeld, inFlight, chunksRead, segInput, calls>>
    /\ UNCHANGED <<parserVars, agentVars>>

StartTurn ==
    /\ pc = "idle"
    /\ turn < MaxTurns
    /\ turn' = turn + 1
    /\ frames' = NewFrames(frames)
    /\ chunksRead' = 0
    /\ inputHeld' = TRUE
    /\ pc' = "capturing"
    /\ UNCHANGED <<data, segments, waveform, input_text, output, inFlight,
                   segInput, calls, failedAt>>
    /\ UNCHANGED <<parserVars, agentVars>>

OpenFail ==
    /\ pc = "idle"
    /\ turn < MaxTurns
    /\ turn' = turn + 1
    /\ frames' = NewFrames(frames)
    /\ chunksRead' = 0
    /\ pc' = OnFailure("open")
    /\ failedAt' = "open"
    /\ UNCHANGED <<data, segments, waveform, input_text, output, inputHeld,
                   inFlight, segInput, calls>>
    /\ UNCHANGED <<parserVars, agentVars>>

ReadChunk ==
    /\ pc = "capturing"
    /\ chunksRead < MaxChunks
    /\ \E raw \in RawChunks : data' = Normalize(raw)
    /\ chunksRead' = chunksRead + 1
    /\ pc' = "segmenting"
    /\ UNCHANGED <<turn, frames, segments, waveform, input_text, output,
                   inputHeld, inFlight, segInput, calls, failedAt>>
    /\ UNCHANGED <<parserVars, agentVars>>

ReadFail ==
    /\ pc = "capturing"
    /\ chunksRead < MaxChunks
    /\ pc' = OnFailure("read")
    /\ failedAt' = "read"
    /\ inputHeld' = StreamExit(inputHeld)
    /\ UNCHANGED <<turn, prog, inFlight, chunksRead, segInput, calls>>
    /\ UNCHANGED <<parserVars, agentVars>>

Segment ==
    /\ pc = "segmenting"
    /\ segInput' = SegArg(frames, data)
    /\ \E segs \in Diarizations :
        /\ segments' = segs
        /\ IF ContinuationTest(segs)
           THEN /\ frames' = Accumulate(frames, data)
                /\ pc' = "capturing"
                /\ inputHeld' = inputHeld
           ELSE /\ frames' = frames
                /\ pc' = "captured"
                /\ inputHeld' = StreamExit(inputHeld)
    /\ UNCHANGED <<turn, data, waveform, input_text, output, inFlight,
                   chunksRead, calls, failedAt>>
    /\ UNCHANGED <<parserVars, agentVars>>

SegmentFail ==
    /\ pc = "segmenting"
    /\ segInput' = SegArg(frames, data)
    /\ pc' = OnFailure("segment")
    /\ failedAt' = "segment"
    /\ inputHeld' = StreamExit(inputHeld)
    /\ UNCHANGED <<turn, prog, inFlight, chunksRead, calls>>
    /\ UNCHANGED <<parserVars, agentVars>>

CheckFrames ==
    /\ pc = "captured"
    /\ IF NoVoice(frames)
       THEN /\ pc' = "halt"
            /\ UNCHANGED <<waveform, catCalls>>
       ELSE /\ waveform' = Cat(frames)
            /\ catCalls' = catCalls + 1
            /\ pc' = "transcribing"
    /\ UNCHANGED <<turn, frames, data, segments, input_text, output, inputHeld,
                   inFlight, chunksRead, segInput, sttCalls, ttsCalls,
                   playCalls, failedAt>>
    /\ UNCHANGED <<parserVars, agentVars>>

Transcribe ==
    /\ pc = "transcribing"
    /\ sttCalls' = sttCalls + 1
    /\ \E t \in Texts : input_text' = t
    /\ pc' = "synthesizing"
    /\ UNCHANGED <<turn, frames, data, segments, waveform, output, inputHeld,
                   inFlight, chunksRead, segInput, ttsCalls, playCalls,
                   catCalls, failedAt>>
    /\ UNCHANGED <<parserVars, agentVars>>

TranscribeFail ==
    /\ pc = "transcribing"
    /\ sttCalls' = sttCalls + 1
    /\ pc' = OnFailure("transcribing")
    /\ failedAt' = "stt"
    /\ UNCHANGED <<turn, prog, inputHeld, inFlight, chunksRead, segInput,
                   ttsCalls, playCalls, catCalls>>
    /\ UNCHANGED <<parserVars, agentVars>>

Synthesize ==
    /\ pc = "synthesizing"
    /\ ttsCalls' = ttsCalls + 1
    /\ \E audio \in Audios :
        /\ output' = audio
        /\ \E w \in ScaledOutcomes(audio) : waveform' = w
    /\ pc' = "playing"
    /\ UNCHANGED <<turn, frames, data, segments, input_text, inputHeld,
                   inFlight, chunksRead, segInput, sttCalls, playCalls,
                   catCalls, failedAt>>
    /\ UNCHANGED <<parserVars, agentVars>>

SynthesizeFail ==
    /\ pc = "synthesizing"
    /\ ttsCalls' = ttsCalls + 1
    /\ pc' = OnFailure("synthesizing")
    /\ failedAt' = "tts"
    /\ UNCHANGED <<turn, prog, inputHeld, inFlight, chunksRead, segInput,
                   sttCalls, playCalls, catCalls>>
    /\ UNCHANGED <<parserVars, agentVars>>

PlayBuffer ==
    /\ pc = "playing"
    /\ playCalls' = playCalls + 1
    /\ inFlight' = inFlight + 1
    /\ pc' = "waiting"
    /\ UNCHANGED <<turn, prog, inputHeld, chunksRead, segInput, sttCalls,
                   ttsCalls, catCalls, failedAt>>
    /\ UNCHANGED <<parserVars, agentVars>>

PlayFail ==
    /\ pc = "playing"
    /\ playCalls' = playCalls + 1
    /\ pc' = OnFailure("playing")
    /\ failedAt' = "play"
    /\ UNCHANGED <<turn, prog, inputHeld, inFlight, chunksRead, segInput,
                   sttCalls, ttsCalls, catCalls>>
    /\ UNCHANGED <<parserVars, agentVars>>

PlaybackFinishes ==
    /\ inFlight > 0
    /\ inFlight' = inFlight - 1
    /\ UNCHANGED <<pc, turn, prog, inputHeld, chunksRead, segInput, calls, failedAt>>
    /\ UNCHANGED <<parserVars, agentVars>>

WaitDone ==
    /\ pc = "waiting"
    /\ WaitDoneReturns(inFlight)
    /\ pc' = "idle"
    /\ UNCHANGED <<turn, prog, inputHeld, inFlight, chunksRead, segInput, calls, failedAt>>
    /\ UNCHANGED <<parserVars, agentVars>>

Next ==
    \/ WarmUp
    \/ WarmUpFail
    \/ StartTurn
    \/ OpenFail
    \/ ReadChunk
    \/ ReadFail
    \/ Segment
    \/ SegmentFail
    \/ CheckFrames
    \/ Transcribe
    \/ TranscribeFail
    \/ Synthesize
    \/ SynthesizeFail
    \/ PlayBuffer
    \/ PlayFail
    \/ PlaybackFinishes
    \/ WaitDone

Spec == Init /\ [][Next]_allVars

\* ------------------------------------------------ command parser: actions
Construct ==
    /\ parser_pc = "new"
    /\ \E tree \in CommandTrees :
        /\ command_tree' = tree
        /\ all_commands' = AllCommands(tree)
    /\ parser_pc' = "ready"
    /\ UNCHANGED <<nl_command, chain_outcome, chain_invoked, tok_lst>>
    /\ UNCHANGED <<vars, agentVars>>

TokenizeCommand ==
    /\ parser_pc \in {"ready", "called"}
    /\ \E inp \in ParserInputs, outcome \in ChainOutcomes :
        LET r == Tokenize(all_commands, inp, outcome)
        IN  /\ nl_command' = inp
            /\ chain_invoked' = r.invoked
            /\ chain_outcome' = IF r.invoked THEN outcome ELSE NoOutcome
            /\ tok_lst' = r.tok_lst
    /\ parser_pc' = "called"
    /\ UNCHANGED <<command_tree, all_commands>>
    /\ UNCHANGED <<vars, agentVars>>

ParserNext ==
    \/ Construct
    \/ TokenizeCommand

SpecParser == Init /\ [][ParserNext]_allVars

\* --------------------------------------------------- ReAct agent: actions
AgentProcessUserInput ==
    /\ agent_calls < MaxAgentCalls
    /\ \E user_input \in UserInputs, run \in AgentRuns :
        LET v == ProcessUserInput(history_verbose, TRUE, user_input, run)
            n == ProcessUserInput(history_plain, FALSE, user_input, run)
        IN  /\ history_verbose' = v.message_history
            /\ result_verbose' = v.result
            /\ history_plain' = n.message_history
            /\ result_plain' = n.result
    /\ agent_calls' = agent_calls + 1
    /\ agent_last' = "process_user_input"
    /\ UNCHANGED <<vars, parserVars>>

AgentResetConversation ==
    /\ agent_last = "process_user_input"
    /\ history_verbose' = <<>>
    /\ history_plain' = <<>>
    /\ agent_last' = "reset_conversation"
    /\ UNCHANGED <<result_verbose, result_plain, agent_calls>>
    /\ UNCHANGED <<vars, parserVars>>

AgentNext ==
    \/ AgentProcessUserInput
    \/ AgentResetConversation

SpecAgent == Init /\ [][AgentNext]_allVars

\* ---------------------------------------------------------------- claims
Capture == {"capturing", "segmenting"}
Pipeline == {"transcribing", "synthesizing", "playing", "waiting"}

\* C1: when the segmenter returns no segment for the first chunk of a turn,
\* the capture loop ends with an empty buffer, the outer loop exits (halt),
\* no transcription, synthesis or playback call is made in that turn, and
\* nothing at all happens after halt.
C1_NoVoiceHalts ==
    [][ /\ (pc = "segmenting" /\ chunksRead = 1 /\ pc' \in {"capturing", "captured"}
             /\ segments' = <<>>)
            => (pc' = "captured" /\ frames' = <<>> /\ ~inputHeld')
        /\ (pc = "captured" /\ chunksRead = 1 /\ segments = <<>>)
            => (pc' = "halt" /\ UNCHANGED calls)
        /\ (pc' = "halt")
            => (/\ sttCalls' = turn' - 1 /\ ttsCalls' = turn' - 1
                /\ playCalls' = turn' - 1 /\ catCalls' = turn' - 1
                /\ inFlight' = 0)
        /\ (pc = "halt" => FALSE) ]_vars

C1_Witness == pc = "halt" /\ chunksRead = 1 /\ segments = <<>>

\* C2 (as stated): in a turn of three chunks (speech through chunks 1 and 2,
\* silence in chunk 3) the accumulator finalizes with n chunks, and
\* transcription, synthesis and playback are each invoked exactly once
\* before control is back at idle.
InScenarioA ==
    /\ chunksRead = 3
    /\ pc \in {"captured", "idle"} \cup Pipeline

ScenarioAState(n) ==
    InScenarioA =>
        /\ Len(frames) = n
        /\ pc # "captured" => catCalls = turn
        /\ pc \in {"transcribing", "synthesizing"} => Len(waveform) = n * SamplesPerChunk
        /\ sttCalls = IF pc \in {"captured", "transcribing"} THEN turn - 1 ELSE turn
        /\ ttsCalls = IF pc \in {"captured", "transcribing", "synthesizing"}
                      THEN turn - 1 ELSE turn
        /\ playCalls = IF pc \in {"waiting", "idle"} THEN turn ELSE turn - 1
        /\ pc = "idle" => inFlight = 0

\* C2, original statement: the accumulator finalizes with 3 chunks.
C2_ScenarioA_ThreeChunks == ScenarioAState(3)

\* C2, amended: the accumulator finalizes with the 2 chunks that passed the
\* continuation test (the third, silent chunk is read but never appended);
\* transcription, synthesis and playback are each invoked exactly once and
\* the turn ends at idle with no playback in flight.
C2_ScenarioA ==
    [][ /\ ScenarioAState(2)'
        /\ (InScenarioA /\ pc = "waiting" /\ pc' # pc) => pc' = "idle" ]_vars

C2_Witness ==
    pc = "idle" /\ chunksRead = 3 /\ turn = 1 /\ playCalls = 1 /\ Len(frames) = 2

C4_HaltOnlyOnZeroSegments == pc = "halt" => segments = <<>>

\* C5: a capture iteration whose segments are non-empty and whose last end
\* passes the continuation test appends exactly the incoming chunk; any
\* other iteration leaves the buffer alone and ends the capture loop; the
\* buffer never shrinks within a turn and the loop never resumes in a turn.
C5_BufferGrowth ==
    [][ /\ (pc = "segmenting" /\ pc' \in {"capturing", "captured"})
            => IF /\ Len(segments') > 0
                  /\ CHUNK_SIZE - segments'[Len(segments')].end < SILENCE_DURATION
               THEN /\ frames' = Append(frames, data)
                    /\ Len(frames') = Len(frames) + 1
                    /\ pc' = "capturing"
               ELSE /\ frames' = frames
                    /\ pc' = "captured"
        /\ turn' = turn => Len(frames') >= Len(frames)
        /\ (pc # "segmenting" /\ turn' = turn) => frames' = frames
        /\ pc \in {"captured"} \cup Pipeline => pc' \notin Capture ]_vars

C5_Witness == pc = "captured" /\ chunksRead = 3 /\ Len(frames) = 2

\* C6: the input device is held only while capturing; it is released when
\* the capture loop ends by a failed continuation test, by no voice, or by
\* an error in read or segmentation.
C6_InputReleased ==
    /\ inputHeld => pc \in Capture
    /\ pc \in Pipeline \cup {"captured", "halt", "error", "idle"} => ~inputHeld

C6_Witness == pc = "error" /\ failedAt = "segment" /\ ~inputHeld

\* C7: at most one playback is in flight, and none is while a turn captures.
C7_PlaybackBeforeCapture ==
    /\ inFlight <= 1
    /\ pc \in Capture \cup {"idle", "captured"} => inFlight = 0
    /\ inputHeld => inFlight = 0

C7_Witness == pc = "capturing" /\ turn = 2 /\ playCalls = 1 /\ inFlight = 0

\* C8: the finalized waveform is the N buffered chunks in capture order,
\* N x L samples long; concatenation happens once per utterance, after the
\* capture loop and before transcription.
C8_Concat ==
    /\ pc \in {"transcribing", "synthesizing"} =>
        /\ Len(waveform) = Len(frames) * SamplesPerChunk
        /\ \A i \in 1..Len(frames) : \A j \in 1..SamplesPerChunk :
              waveform[(i - 1) * SamplesPerChunk + j] = frames[i][j]
    /\ pc \in Capture \cup {"captured", "halt"} => catCalls = turn - 1
    /\ pc \in Pipeline => catCalls = turn
    /\ pc = "transcribing" => sttCalls = catCalls - 1
    /\ pc \in Pipeline \ {"transcribing"} => sttCalls = catCalls

C8_Witness == pc = "transcribing" /\ Len(frames) = 2 /\ frames[1] # frames[2]

\* C9: every played sample is trunc(x * 32767) of a synthesized sample x
\* that lies in [-1, 1].
C9_ScalingNoWrap ==
    pc \in {"playing", "waiting"} =>
        \A i \in 1..Len(output) :
            /\ Abs(output[i]) <= FloatOne
            /\ waveform[i] = TruncDiv(output[i] * 32767, FloatOne)

\* C10: a failure of device access or of a pipeline call ends the process:
\* nothing runs after it (no retry, no later stage, no new turn), and halt
\* is reached only without a failure, on an empty buffer.
C10_FailureFatal ==
    [][ /\ (failedAt # "none" => FALSE)
        /\ failedAt' # "none" => pc' = "error"
        /\ pc' = "error" => failedAt' # "none"
        /\ pc' = "halt" => (failedAt' = "none" /\ Len(frames') = 0) ]_vars

C10_Witness == pc = "error" /\ failedAt = "tts" /\ turn = 1 /\ sttCalls = 1

\* C11: the utterance buffer is empty when a turn starts and only chunks
\* read in the current turn join it, so the waveform handed to
\* transcription is the concatenation of chunks of this turn alone, and
\* synthesis and playback follow this turn's own transcription and
\* synthesis calls.
C11_NoCrossTurnState ==
    [][ /\ turn' # turn => (frames' = <<>> /\ chunksRead' = 0)
        /\ (turn' = turn /\ frames' # frames)
            => (pc = "segmenting" /\ chunksRead >= 1 /\ frames' = Append(frames, data))
        /\ Len(frames') <= chunksRead'
        /\ pc' \in {"captured"} \cup Pipeline => Len(frames') = chunksRead' - 1
        /\ pc' = "transcribing" => waveform' = Cat(frames')
        /\ pc' = "synthesizing" => (sttCalls' = turn' /\ catCalls' = turn')
        /\ pc' = "playing" => ttsCalls' = turn' ]_vars

C11_Witness ==
    pc = "transcribing" /\ turn = 2 /\ Len(frames) = 1 /\ waveform = frames[1]

\* C12: tokenize_command returns only commands of all_commands (the keys
\* of command_tree and every destination command): the chain's command
\* list with the unknown commands dropped and the others in their order;
\* it returns the empty list, without invoking the chain, for an input
\* that is empty or not a string, and the empty list whenever the chain
\* invocation raises.
KnownCommand(c) ==
    \/ c \in DOMAIN command_tree
    \/ \E k \in DOMAIN command_tree :
          \E i \in 1..Len(command_tree[k]) : command_tree[k][i] = c

KeptIndexes ==
    {i \in 1..Len(chain_outcome.commands) : KnownCommand(chain_outcome.commands[i])}

C12_TokenizeCommand ==
    parser_pc = "called" =>
        /\ \A i \in 1..Len(tok_lst) : KnownCommand(tok_lst[i])
        /\ (nl_command.type # "str" \/ nl_command.val = "")
            => (tok_lst = <<>> /\ ~chain_invoked)
        /\ (nl_command.type = "str" /\ nl_command.val # "") => chain_invoked
        /\ (chain_invoked /\ chain_outcome.kind = "raise") => tok_lst = <<>>
        /\ (chain_invoked /\ chain_outcome.kind = "commands")
            => /\ Len(tok_lst) = Cardinality(KeptIndexes)
               /\ \A n \in 1..Len(tok_lst) :
                     tok_lst[n] = chain_outcome.commands[
                         CHOOSE i \in KeptIndexes :
                             Cardinality({j \in KeptIndexes : j <= i}) = n]

C12_Witness ==
    /\ parser_pc = "called"
    /\ chain_invoked
    /\ chain_outcome.kind = "commands"
    /\ Len(chain_outcome.commands) = 3
    /\ Len(tok_lst) = 2
    /\ tok_lst[1] # tok_lst[2]

\* C13: the verbose and the non-verbose agent, given the same calls and
\* the same executor runs, return the same responses and hold the same
\* message_history, which after process_user_input ends with the agent's
\* reply to the user's message.
C13_VerboseOnlyPrints ==
    /\ result_verbose = result_plain
    /\ history_verbose = history_plain
    /\ agent_last = "process_user_input" =>
        \A h \in {history_verbose, history_plain} :
            /\ Len(h) >= 2
            /\ Last(h) = AI(result_plain)
            /\ \E i \in 1..(Len(h) - 1) : h[i].role = "human"

TypeOK ==
    /\ pc \in {"warmup", "idle", "capturing", "segmenting", "captured",
               "transcribing", "synthesizing", "playing", "waiting", "halt", "error"}
    /\ turn \in 0..MaxTurns
    /\ inputHeld \in BOOLEAN
    /\ inFlight \in 0..MaxTurns
    /\ chunksRead \in 0..MaxChunks
====
